---- MODULE Spec2Model ----
(***************************************************************************)
(* A model of configmanager's configuration tree: Config sections          *)
(* (src/configmanager/managers.py) holding Items and nested sections in an *)
(* object heap, with lookup, iteration, dump_values, load_values and reset.*)
(* Item and SimpleSection are not part of the sources at hand; they are    *)
(* modelled from the specification's sections 3 and 4.                     *)
(***************************************************************************)
EXTENDS Integers, Sequences, FiniteSets, TLC

VARIABLES items, sections, decl, op, steps

vars == <<items, sections, decl, op, steps>>

(***************************************************************************)
(* Bounds of the model.                                                    *)
(***************************************************************************)
MaxItems == 4

MaxSections == 3

\* The number of operations applied to the tree.
MaxOps == 3

(***************************************************************************)
(* Python values.  Every value is a record of one shape: kind names the    *)
(* Python type, and b, n, s, d hold a bool, an int, a str (its characters) *)
(* or a dict (its entries in insertion order; o names where the dict       *)
(* object was created, which is what tells two equal dicts apart).         *)
(***************************************************************************)
PV(kind, b, n, s, d, o) == [kind |-> kind, b |-> b, n |-> n, s |-> s, d |-> d, o |-> o]

NotSet == PV("notset", FALSE, 0, <<>>, <<>>, "")

PyBool(x) == PV("bool", x, 0, <<>>, <<>>, "")

PyInt(x) == PV("int", FALSE, x, <<>>, <<>>, "")

PyStr(x) == PV("str", FALSE, 0, x, <<>>, "")

PyDict(es, origin) == PV("dict", FALSE, 0, <<>>, es, origin)

KV(k, v) == [k |-> k, v |-> v]

IsDict(v) == v.kind = "dict"

\* d[k] = v on an insertion-ordered dict: a bound key keeps its position.
DictSet(es, k, v) ==
  IF \E i \in 1..Len(es) : es[i].k = k
  THEN [i \in 1..Len(es) |-> IF es[i].k = k THEN KV(k, v) ELSE es[i]]
  ELSE Append(es, KV(k, v))

DictKeys(es) == {es[i].k : i \in 1..Len(es)}

DictGet(es, k) == es[CHOOSE i \in 1..Len(es) : es[i].k = k].v

\* Python's == on values: dicts compare as mappings (order and identity
\* play no part), everything else by kind and content.
RECURSIVE PyEq(_, _)
PyEq(x, y) ==
  IF IsDict(x) /\ IsDict(y)
  THEN /\ DictKeys(x.d) = DictKeys(y.d)
       /\ \A k \in DictKeys(x.d) : PyEq(DictGet(x.d, k), DictGet(y.d, k))
  ELSE x = y

(***************************************************************************)
(* Strings and their conversions.                                          *)
(***************************************************************************)
UpperCase == <<"A","B","C","D","E","F","G","H","I","J","K","L","M",
               "N","O","P","Q","R","S","T","U","V","W","X","Y","Z">>

LowerCase == <<"a","b","c","d","e","f","g","h","i","j","k","l","m",
               "n","o","p","q","r","s","t","u","v","w","x","y","z">>

Digits == <<"0","1","2","3","4","5","6","7","8","9">>

LowerChar(c) ==
  IF \E i \in 1..Len(UpperCase) : UpperCase[i] = c
  THEN LowerCase[CHOOSE i \in 1..Len(UpperCase) : UpperCase[i] = c]
  ELSE c

\* str.lower()
Lower(s) == [i \in 1..Len(s) |-> LowerChar(s[i])]

IsDigit(c) == \E i \in 1..Len(Digits) : Digits[i] = c

DigitVal(c) == (CHOOSE i \in 1..Len(Digits) : Digits[i] = c) - 1

RECURSIVE DigitsVal(_)
DigitsVal(s) ==
  IF s = <<>> THEN 0
  ELSE 10 * DigitsVal(SubSeq(s, 1, Len(s) - 1)) + DigitVal(s[Len(s)])

AllDigits(s) == s # <<>> /\ \A i \in 1..Len(s) : IsDigit(s[i])

RECURSIVE NatToStr(_)
NatToStr(n) ==
  IF n < 10 THEN <<Digits[n + 1]>>
  ELSE NatToStr(n \div 10) \o <<Digits[(n % 10) + 1]>>

IntToStr(n) == IF n < 0 THEN <<"-">> \o NatToStr(-n) ELSE NatToStr(n)

\* repr() of a value, as str() of a dict prints it.  Keys are one character.
RECURSIVE Repr(_)
RECURSIVE ReprEntries(_)
ReprEntries(es) ==
  IF es = <<>> THEN <<>>
  ELSE <<"'", es[1].k, "'", ":", " ">> \o Repr(es[1].v)
       \o (IF Len(es) > 1 THEN <<",", " ">> ELSE <<>>)
       \o ReprEntries(Tail(es))

Repr(v) ==
  CASE v.kind = "bool" -> IF v.b THEN <<"T","r","u","e">> ELSE <<"F","a","l","s","e">>
    [] v.kind = "int" -> IntToStr(v.n)
    [] v.kind = "str" -> <<"'">> \o v.s \o <<"'">>
    [] v.kind = "dict" -> <<"{">> \o ReprEntries(v.d) \o <<"}">>
    [] OTHER -> <<"?">>

(***************************************************************************)
(* Item: type coercion.                                                    *)
(***************************************************************************)
Truthy == { <<"y","e","s">>, <<"t","r","u","e">>, <<"1">>, <<"o","n">> }

Falsy == { <<"n","o">>, <<"f","a","l","s","e">>, <<"0">>, <<"o","f","f">> }

NoErr == "ok"

Ok(v) == [err |-> NoErr, v |-> v]

Fail(e) == [err |-> e, v |-> NotSet]

CoerceBool(v) ==
  IF v.kind = "str"
  THEN IF Lower(v.s) \in Truthy THEN Ok(PyBool(TRUE))
       ELSE IF Lower(v.s) \in Falsy THEN Ok(PyBool(FALSE))
       ELSE Fail("TypeError")
  ELSE CASE v.kind = "bool" -> Ok(v)
         [] v.kind = "int" -> Ok(PyBool(v.n # 0))
         [] OTHER -> Ok(PyBool(v.d # <<>>))

CoerceInt(v) ==
  CASE v.kind = "int" -> Ok(v)
    [] v.kind = "bool" -> Ok(PyInt(IF v.b THEN 1 ELSE 0))
    [] v.kind = "str" ->
         IF AllDigits(v.s) THEN Ok(PyInt(DigitsVal(v.s)))
         ELSE IF Len(v.s) > 1 /\ v.s[1] \in {"-", "+"} /\ AllDigits(Tail(v.s))
              THEN Ok(PyInt(IF v.s[1] = "-" THEN 0 - DigitsVal(Tail(v.s))
                                            ELSE DigitsVal(Tail(v.s))))
              ELSE Fail("TypeError")
    [] OTHER -> Fail("TypeError")

CoerceStr(v) == IF v.kind = "str" THEN Ok(v) ELSE Ok(PyStr(IF v.kind = "dict" THEN Repr(v) ELSE
                                                        IF v.kind = "bool" THEN Repr(v) ELSE IntToStr(v.n)))

CoerceDict(v) == IF v.kind = "dict" THEN Ok(v) ELSE Fail("TypeError")

\* The value an Item of the given type stores when it is given v.
Coerce(type, v) ==
  CASE type = "bool" -> CoerceBool(v)
    [] type = "int" -> CoerceInt(v)
    [] type = "str" -> CoerceStr(v)
    [] type = "dict" -> CoerceDict(v)
    [] OTHER -> Ok(v)

(***************************************************************************)
(* Item: a named, typed leaf with a default and an optional override.      *)
(***************************************************************************)
NoName == "<not_set>"

NewItem(name, type, default) ==
  [name |-> name, type |-> type, default |-> default, value |-> NotSet]

\* Item(name, default=v): the type is that of the default.
ItemWithDefault(name, v) == NewItem(name, v.kind, v)

HasValue(it) == it.value # NotSet \/ it.default # NotSet

ItemIsDefault(it) == it.value = NotSet

\* Reading .value: the override, else the default, else NoValue.
ItemValue(it) ==
  IF it.value # NotSet THEN Ok(it.value)
  ELSE IF it.default # NotSet THEN Ok(it.default)
  ELSE Fail("NoValue")

\* An untyped Item takes its type from the first value or default it is given.
InferType(it, v) == IF it.type = "any" THEN v.kind ELSE it.type

\* item.value = v
ItemSetValue(it, v) ==
  LET c == Coerce(it.type, v) IN
  IF c.err # NoErr THEN [err |-> c.err, it |-> it]
  ELSE [err |-> NoErr, it |-> [it EXCEPT !.value = c.v, !.type = InferType(it, c.v)]]

\* item.default = v
ItemSetDefault(it, v) ==
  LET c == Coerce(it.type, v) IN
  IF c.err # NoErr THEN [err |-> c.err, it |-> it]
  ELSE [err |-> NoErr, it |-> [it EXCEPT !.default = c.v, !.type = InferType(it, c.v)]]

\* item.reset()
ItemReset(it) == [it EXCEPT !.value = NotSet]

(***************************************************************************)
(* The object heap: h.items and h.sections are indexed by object identity. *)
(* A section's configs is its ordered mapping from key to child reference. *)
(***************************************************************************)
Heap(its, secs) == [items |-> its, sections |-> secs]

ItemRef(i) == [t |-> "item", id |-> i]

SecRef(i) == [t |-> "sec", id |-> i]

NoRef == [t |-> "none", id |-> 0]

NewSection == [configs |-> <<>>, alias |-> NoName, parent |-> 0, hooks |-> <<>>]

Configs(h, sec) == h.sections[sec].configs

\* key in self._cm__configs
Bound(h, sec, key) == key \in DictKeys(Configs(h, sec))

Child(h, sec, key) == DictGet(Configs(h, sec), key)

Res(h, err, ref) == [h |-> h, err |-> err, ref |-> ref]

(***************************************************************************)
(* SimpleSection: membership, add_item, add_section, assignment.           *)
(***************************************************************************)
\* key in section, for a string key: direct children only.
Contains(h, sec, key) == Bound(h, sec, key)

\* The stored copy of an item: it keeps an explicit name, else takes the alias.
StoredCopy(alias, it) == IF it.name = NoName THEN [it EXCEPT !.name = alias] ELSE it

\* Bind a new object holding the copy under its name and under the alias.
BindCopy(h, sec, alias, it) ==
  LET copy == StoredCopy(alias, it)
      id == Len(h.items) + 1
      cs == DictSet(DictSet(Configs(h, sec), copy.name, ItemRef(id)), alias, ItemRef(id))
  IN Res(Heap(Append(h.items, copy), [h.sections EXCEPT ![sec].configs = cs]),
         NoErr, ItemRef(id))

\* A plausible slip: the object passed in is bound itself, not a copy of it.
SimpleAddItemShared(h, sec, alias, src) ==
  LET named == StoredCopy(alias, h.items[src])
      cs == DictSet(DictSet(Configs(h, sec), named.name, ItemRef(src)), alias, ItemRef(src))
  IN Res(Heap([h.items EXCEPT ![src] = named], [h.sections EXCEPT ![sec].configs = cs]),
         NoErr, ItemRef(src))

\* SimpleSection.add_item(alias, item): stores a deep copy of the item.
SimpleAddItem(h, sec, alias, src) == BindCopy(h, sec, alias, h.items[src])

\* SimpleSection.add_section(alias, section): attaches the section itself.
SimpleAddSection(h, sec, alias, sub) ==
  LET cs == DictSet(Configs(h, sec), alias, SecRef(sub))
  IN Res(Heap(h.items, [h.sections EXCEPT ![sec].configs = cs,
                                          ![sub].alias = alias,
                                          ![sub].parent = sec]),
         NoErr, SecRef(sub))

\* A plausible slip: a raw value assigned over a slot replaces the Item by a
\* new one holding the value.
SetItemRawOverwrites(h, sec, key, v) == BindCopy(h, sec, key, ItemWithDefault(NoName, v))

\* section[key] = v and section.key = v for v neither Item nor section.
SetItemRaw(h, sec, key, v) == Res(h, "TypeError", NoRef)

(***************************************************************************)
(* Config: key resolution.                                                 *)
(***************************************************************************)
StrKey(k) == [t |-> "str", k |-> k, p |-> <<>>]

PathKey(p) == [t |-> "path", k |-> "", p |-> p]

OtherKey == [t |-> "other", k |-> "", p |-> <<>>]

Found(ref) == [err |-> NoErr, ref |-> ref, asked |-> <<>>]

Raise(e) == [err |-> e, ref |-> NoRef, asked |-> <<>>]

\* The handlers registered against NOT_FOUND: one that supplies nothing, and
\* one that falls back to the first child of the section.
Handlers == {"nothing", "first_child"}

\* handler(name=name, section=section)
Handler(hd, h, sec, name) ==
  IF hd = "first_child" /\ Configs(h, sec) # <<>> THEN Configs(h, sec)[1].v ELSE NoRef

RECURSIVE HandleFrom(_, _, _, _)
\* The handlers from position i on are called in order until one supplies
\* a result; asked keeps the handlers called.
HandleFrom(h, sec, name, i) ==
  LET reg == h.sections[sec].hooks IN
  IF i > Len(reg) THEN [ref |-> NoRef, asked |-> <<>>]
  ELSE LET result == Handler(reg[i], h, sec, name) IN
       IF result # NoRef THEN [ref |-> result, asked |-> <<reg[i]>>]
       ELSE LET rest == HandleFrom(h, sec, name, i + 1) IN
            [rest EXCEPT !.asked = <<reg[i]>> \o @]

\* hooks.handle(NOT_FOUND, name=key, section=self): the first non-null
\* handler result, None without one.
HooksHandleNotFound(h, sec, name) == HandleFrom(h, sec, name, 1)

\* hooks.register_hook(NOT_FOUND, handler)
HooksRegister(h, sec, hd) ==
  Heap(h.items, [h.sections EXCEPT ![sec].hooks = Append(@, hd)])

RECURSIVE ResolveConfigKey(_, _, _)

\* child[key]: a section resolves the key, an Item cannot be subscripted.
GetItem(h, ref, key) ==
  IF ref.t = "sec" THEN ResolveConfigKey(h, ref.id, key) ELSE Raise("TypeError")

\* A plausible slip: a path is resolved by its first segment alone.
\* A plausible slip: the handlers are consulted before the bindings.
ResolveConfigKeyHookFirst(h, sec, key) ==
  IF key.t = "str"
  THEN LET result == HooksHandleNotFound(h, sec, key.k) IN
       IF result.ref # NoRef THEN [Found(result.ref) EXCEPT !.asked = result.asked]
       ELSE IF Bound(h, sec, key.k)
            THEN [Found(Child(h, sec, key.k)) EXCEPT !.asked = result.asked]
            ELSE [Raise("NotFound") EXCEPT !.asked = result.asked]
  ELSE IF key.t = "path" /\ Len(key.p) > 0
  THEN IF Len(key.p) = 1 THEN ResolveConfigKey(h, sec, StrKey(key.p[1]))
       ELSE LET first == ResolveConfigKey(h, sec, StrKey(key.p[1])) IN
            IF first.err # NoErr THEN first
            ELSE LET rest == GetItem(h, first.ref, PathKey(Tail(key.p))) IN
                 [rest EXCEPT !.asked = first.asked \o @]
  ELSE Raise("TypeError")

ResolveConfigKeyFirstOnly(h, sec, key) ==
  IF key.t = "other" \/ (key.t = "path" /\ key.p = <<>>) THEN Raise("TypeError")
  ELSE LET k == IF key.t = "str" THEN key.k ELSE key.p[1] IN
       IF Bound(h, sec, k) THEN Found(Child(h, sec, k)) ELSE Raise("NotFound")

\* Config._resolve_config_key(key)
ResolveConfigKey(h, sec, key) ==
  IF key.t = "str"
  THEN IF Bound(h, sec, key.k) THEN Found(Child(h, sec, key.k))
       ELSE LET result == HooksHandleNotFound(h, sec, key.k) IN
            IF result.ref # NoRef THEN [Found(result.ref) EXCEPT !.asked = result.asked]
            ELSE [Raise("NotFound") EXCEPT !.asked = result.asked]
  ELSE IF key.t = "path" /\ Len(key.p) > 0
  THEN IF Len(key.p) = 1 THEN ResolveConfigKey(h, sec, StrKey(key.p[1]))
       ELSE LET first == ResolveConfigKey(h, sec, StrKey(key.p[1])) IN
            IF first.err # NoErr THEN first
            ELSE LET rest == GetItem(h, first.ref, PathKey(Tail(key.p))) IN
                 [rest EXCEPT !.asked = first.asked \o @]
  ELSE Raise("TypeError")

(***************************************************************************)
(* Traversal.                                                              *)
(***************************************************************************)
Yield(key, ref) == [key |-> key, ref |-> ref]

NoKey == <<"<none>">>

RECURSIVE IterFrom(_, _, _, _, _, _)
\* The children of sec from position i on, each once, depth first, keyed
\* by the names from the section iterated down to the child.
IterFrom(h, sec, i, recursive, key, prefix) ==
  LET cs == Configs(h, sec) IN
  IF i > Len(cs) THEN <<>>
  ELSE LET c == cs[i].v
           rest == IterFrom(h, sec, i + 1, recursive, key, prefix)
       IN IF \E j \in 1..(i - 1) : cs[j].v = c THEN rest
          ELSE IF c.t = "sec"
          THEN LET path == prefix \o <<h.sections[c.id].alias>> IN
               <<Yield(IF key = "path" THEN path ELSE NoKey, c)>>
               \o (IF recursive THEN IterFrom(h, c.id, 1, recursive, key, path) ELSE <<>>)
               \o rest
          ELSE <<Yield(IF key = "path" THEN prefix \o <<h.items[c.id].name>> ELSE NoKey, c)>>
               \o rest

\* SimpleSection.iter_all(recursive, key), key being 'path' or None.
IterAll(h, sec, recursive, key) == IterFrom(h, sec, 1, recursive, key, <<>>)

\* A plausible slip: the recursive flag is dropped on the way to iter_all.
IterItemsFlat(h, sec, recursive, key) ==
  SelectSeq(IterAll(h, sec, FALSE, key), LAMBDA x : x.ref.t = "item")

\* Config.iter_items(recursive, key)
IterItems(h, sec, recursive, key) ==
  SelectSeq(IterAll(h, sec, recursive, key), LAMBDA x : x.ref.t = "item")

(***************************************************************************)
(* dump_values, load_values, reset, is_default.                            *)
(***************************************************************************)
RECURSIVE DumpValues(_, _, _)
RECURSIVE DumpFrom(_, _, _, _, _)
\* A plausible slip: the sub-sections are left out of the export.
DumpFromItemsOnly(h, sec, i, with_defaults, values) ==
  LET cs == Configs(h, sec) IN
  IF i > Len(cs) THEN values
  ELSE LET item == cs[i].v IN
       IF item.t = "sec"
       THEN DumpFrom(h, sec, i + 1, with_defaults, values)
       ELSE LET it == h.items[item.id] IN
            DumpFrom(h, sec, i + 1, with_defaults,
                     IF HasValue(it) /\ (with_defaults \/ ~ItemIsDefault(it))
                     THEN DictSet(values, it.name, ItemValue(it).v)
                     ELSE values)

\* A plausible slip: a default is exported whatever with_defaults says.
DumpFromDefaultsToo(h, sec, i, with_defaults, values) ==
  LET cs == Configs(h, sec) IN
  IF i > Len(cs) THEN values
  ELSE LET item_name == cs[i].k
           item == cs[i].v
       IN IF item.t = "sec"
          THEN LET section_values == DumpValues(h, item.id, with_defaults) IN
               DumpFrom(h, sec, i + 1, with_defaults,
                        IF section_values.d # <<>>
                        THEN DictSet(values, item_name, section_values)
                        ELSE values)
          ELSE LET it == h.items[item.id] IN
               DumpFrom(h, sec, i + 1, with_defaults,
                        IF HasValue(it)
                        THEN DictSet(values, it.name, ItemValue(it).v)
                        ELSE values)

\* A plausible slip: an Item is exported under the key it is stored at.
DumpFromByKey(h, sec, i, with_defaults, values) ==
  LET cs == Configs(h, sec) IN
  IF i > Len(cs) THEN values
  ELSE LET item_name == cs[i].k
           item == cs[i].v
       IN IF item.t = "sec"
          THEN LET section_values == DumpValues(h, item.id, with_defaults) IN
               DumpFrom(h, sec, i + 1, with_defaults,
                        IF section_values.d # <<>>
                        THEN DictSet(values, item_name, section_values)
                        ELSE values)
          ELSE LET it == h.items[item.id] IN
               DumpFrom(h, sec, i + 1, with_defaults,
                        IF HasValue(it) /\ (with_defaults \/ ~ItemIsDefault(it))
                        THEN DictSet(values, item_name, ItemValue(it).v)
                        ELSE values)

DumpFrom(h, sec, i, with_defaults, values) ==
  LET cs == Configs(h, sec) IN
  IF i > Len(cs) THEN values
  ELSE LET item_name == cs[i].k
           item == cs[i].v
       IN IF item.t = "sec"
          THEN LET section_values == DumpValues(h, item.id, with_defaults) IN
               DumpFrom(h, sec, i + 1, with_defaults,
                        IF section_values.d # <<>>
                        THEN DictSet(values, item_name, section_values)
                        ELSE values)
          ELSE LET it == h.items[item.id] IN
               DumpFrom(h, sec, i + 1, with_defaults,
                        IF HasValue(it) /\ (with_defaults \/ ~ItemIsDefault(it))
                        THEN DictSet(values, it.name, ItemValue(it).v)
                        ELSE values)

\* Config.dump_values(with_defaults)
DumpValues(h, sec, with_defaults) == PyDict(DumpFrom(h, sec, 1, with_defaults, <<>>), "dump")

LoadRes(h, err) == [h |-> h, err |-> err]

\* self[name] = self.create_section()
SetNewSection(h, sec, name) ==
  LET sub == Len(h.sections) + 1 IN
  SimpleAddSection(Heap(h.items, Append(h.sections, NewSection)), sec, name, sub)

\* self[name] = self.create_item(name, default=value)
SetNewItem(h, sec, name, value) == BindCopy(h, sec, name, ItemWithDefault(name, value))

RECURSIVE LoadValues(_, _, _, _)
RECURSIVE LoadEntries(_, _, _, _)

\* A plausible slip: an unknown name is materialised whatever the flag.
LoadEntryAlwaysAdds(h, sec, name, value, as_defaults) ==
  IF ~Contains(h, sec, name)
  THEN IF IsDict(value)
       THEN LET made == SetNewSection(h, sec, name) IN
            LoadValues(made.h, GetItem(made.h, SecRef(sec), StrKey(name)).ref.id,
                       value, as_defaults)
       ELSE LoadRes(SetNewItem(h, sec, name, value).h, NoErr)
  ELSE LET child == GetItem(h, SecRef(sec), StrKey(name)).ref IN
       IF child.t = "item"
       THEN LET set == IF as_defaults THEN ItemSetDefault(h.items[child.id], value)
                       ELSE ItemSetValue(h.items[child.id], value)
            IN LoadRes(Heap([h.items EXCEPT ![child.id] = set.it], h.sections), set.err)
       ELSE LoadValues(h, child.id, value, as_defaults)

\* A plausible slip: the two branches on as_defaults are swapped for an Item.
LoadEntrySwapped(h, sec, name, value, as_defaults) ==
  IF ~Contains(h, sec, name)
  THEN IF as_defaults
       THEN IF IsDict(value)
            THEN LET made == SetNewSection(h, sec, name) IN
                 LoadValues(made.h, GetItem(made.h, SecRef(sec), StrKey(name)).ref.id,
                            value, as_defaults)
            ELSE LoadRes(SetNewItem(h, sec, name, value).h, NoErr)
       ELSE LoadRes(h, NoErr)
  ELSE LET child == GetItem(h, SecRef(sec), StrKey(name)).ref IN
       IF child.t = "item"
       THEN LET set == IF as_defaults THEN ItemSetValue(h.items[child.id], value)
                       ELSE ItemSetDefault(h.items[child.id], value)
            IN LoadRes(Heap([h.items EXCEPT ![child.id] = set.it], h.sections), set.err)
       ELSE LoadValues(h, child.id, value, as_defaults)

\* A plausible slip: the flag is not handed down to a known sub-section.
LoadEntryDropsFlag(h, sec, name, value, as_defaults) ==
  IF ~Contains(h, sec, name)
  THEN IF as_defaults
       THEN IF IsDict(value)
            THEN LET made == SetNewSection(h, sec, name) IN
                 LoadValues(made.h, GetItem(made.h, SecRef(sec), StrKey(name)).ref.id,
                            value, as_defaults)
            ELSE LoadRes(SetNewItem(h, sec, name, value).h, NoErr)
       ELSE LoadRes(h, NoErr)
  ELSE LET child == GetItem(h, SecRef(sec), StrKey(name)).ref IN
       IF child.t = "item"
       THEN LET set == IF as_defaults THEN ItemSetDefault(h.items[child.id], value)
                       ELSE ItemSetValue(h.items[child.id], value)
            IN LoadRes(Heap([h.items EXCEPT ![child.id] = set.it], h.sections), set.err)
       ELSE LoadValues(h, child.id, value, FALSE)

\* One turn of the loop of load_values.
LoadEntry(h, sec, name, value, as_defaults) ==
  IF ~Contains(h, sec, name)
  THEN IF as_defaults
       THEN IF IsDict(value)
            THEN LET made == SetNewSection(h, sec, name) IN
                 LoadValues(made.h, GetItem(made.h, SecRef(sec), StrKey(name)).ref.id,
                            value, as_defaults)
            ELSE LoadRes(SetNewItem(h, sec, name, value).h, NoErr)
       ELSE LoadRes(h, NoErr)
  ELSE LET child == GetItem(h, SecRef(sec), StrKey(name)).ref IN
       IF child.t = "item"
       THEN LET set == IF as_defaults THEN ItemSetDefault(h.items[child.id], value)
                       ELSE ItemSetValue(h.items[child.id], value)
            IN LoadRes(Heap([h.items EXCEPT ![child.id] = set.it], h.sections), set.err)
       ELSE LoadValues(h, child.id, value, as_defaults)

\* A plausible slip: a failing load_values takes back what it had applied.
LoadEntriesRollsBack(h, sec, es, as_defaults) ==
  IF es = <<>> THEN LoadRes(h, NoErr)
  ELSE LET one == LoadEntry(h, sec, es[1].k, es[1].v, as_defaults) IN
       IF one.err # NoErr THEN LoadRes(h, one.err)
       ELSE LET rest == LoadEntries(one.h, sec, Tail(es), as_defaults) IN
            IF rest.err # NoErr THEN LoadRes(h, rest.err) ELSE rest

LoadEntries(h, sec, es, as_defaults) ==
  IF es = <<>> THEN LoadRes(h, NoErr)
  ELSE LET one == LoadEntry(h, sec, es[1].k, es[1].v, as_defaults) IN
       IF one.err # NoErr THEN one
       ELSE LoadEntries(one.h, sec, Tail(es), as_defaults)

\* Config.load_values(dictionary, as_defaults)
LoadValues(h, sec, dictionary, as_defaults) ==
  IF IsDict(dictionary) THEN LoadEntries(h, sec, dictionary.d, as_defaults)
  ELSE LoadRes(h, "AttributeError")

\* A plausible slip: reset() does not go into the sub-sections.
ResetDirectOnly(h, sec) ==
  LET found == IterItems(h, sec, FALSE, "path")
      hit == {found[i].ref.id : i \in 1..Len(found)}
  IN Heap([i \in 1..Len(h.items) |-> IF i \in hit THEN ItemReset(h.items[i]) ELSE h.items[i]],
          h.sections)

\* Config.reset()
Reset(h, sec) ==
  LET found == IterItems(h, sec, TRUE, "path")
      hit == {found[i].ref.id : i \in 1..Len(found)}
  IN Heap([i \in 1..Len(h.items) |-> IF i \in hit THEN ItemReset(h.items[i]) ELSE h.items[i]],
          h.sections)

\* Config.is_default
IsDefault(h, sec) ==
  LET found == IterItems(h, sec, TRUE, "path") IN
  \A i \in 1..Len(found) : ItemIsDefault(h.items[found[i].ref.id])

\* Config.add_item(alias, item): the hooks are told of the stored copy.
AddItem(h, sec, alias, src) == SimpleAddItem(h, sec, alias, src)

\* Config.add_section(alias, section)
AddSection(h, sec, alias, sub) == SimpleAddSection(h, sec, alias, sub)

(***************************************************************************)
(* Config(config_declaration): a nested dictionary of plain values becomes *)
(* a section per dictionary and an Item per value, the value its default.  *)
(***************************************************************************)
RECURSIVE ParseDeclaration(_, _, _)
ParseDeclaration(h, sec, es) ==
  IF es = <<>> THEN h
  ELSE LET k == es[1].k
           v == es[1].v
       IN IF IsDict(v)
          THEN LET sub == Len(h.sections) + 1
                   filled == ParseDeclaration(Heap(h.items, Append(h.sections, NewSection)),
                                              sub, v.d)
               IN ParseDeclaration(AddSection(filled, sec, k, sub).h, sec, Tail(es))
          ELSE ParseDeclaration(BindCopy(h, sec, k, ItemWithDefault(NoName, v)).h,
                                sec, Tail(es))

\* Config(declaration), and Config() followed by load_values(declaration,
\* as_defaults=True), the two ways to declare a tree.
Declared(how, d) ==
  LET empty == Heap(<<>>, <<NewSection>>) IN
  IF how = "Config" THEN ParseDeclaration(empty, 1, d.d)
  ELSE LoadValues(empty, 1, d, TRUE).h

(***************************************************************************)
(* What a tree holds, told from the bindings alone.                        *)
(***************************************************************************)
ChildRefs(h, sec) == {Configs(h, sec)[i].v : i \in 1..Len(Configs(h, sec))}

ItemsIn(h, sec) == {r.id : r \in {c \in ChildRefs(h, sec) : c.t = "item"}}

SectionsIn(h, sec) == {r.id : r \in {c \in ChildRefs(h, sec) : c.t = "sec"}}

RECURSIVE ItemsUnder(_, _)
\* The Items of the section and of the sections below it.
ItemsUnder(h, sec) ==
  ItemsIn(h, sec) \cup UNION {ItemsUnder(h, s) : s \in SectionsIn(h, sec)}

RECURSIVE SectionsUnder(_, _)
SectionsUnder(h, sec) ==
  {sec} \cup UNION {SectionsUnder(h, s) : s \in SectionsIn(h, sec)}

(***************************************************************************)
(* Inputs of the operations.                                               *)
(***************************************************************************)
Keys == {"a", "b"}

StrNo == PyStr(<<"N", "o">>)

StrMaybe == PyStr(<<"m", "a", "y", "b", "e">>)

EmptyDict == PyDict(<<>>, "arg")

\* Values assigned to Items.
Vals == {StrNo, StrMaybe, PyInt(5), EmptyDict}

\* Item(), Item(name='n', default=True)
Protos == {NewItem(NoName, "any", NotSet), ItemWithDefault("n", PyBool(TRUE))}

Arg(es) == PyDict(es, "arg")

\* Dictionaries given to load_values.
Dicts ==
  { Arg(<<KV("a", StrNo)>>),
    Arg(<<KV("a", PyInt(5)), KV("n", StrMaybe), KV("b", StrNo)>>),
    Arg(<<KV("b", Arg(<<KV("a", PyBool(TRUE))>>)), KV("a", EmptyDict)>>),
    Arg(<<KV("b", Arg(<<KV("b", Arg(<<KV("n", StrNo)>>))>>))>>) }

Decl(es) == PyDict(es, "decl")

\* Plain values of a declaration.
Scalars == {PyBool(TRUE), PyInt(5)}

\* The declarations over the keys whose values are drawn from V.
DeclsOver(V) ==
  {Decl(<<>>)}
  \cup {Decl(<<KV(k, v)>>) : k \in Keys, v \in V}
  \cup {Decl(<<KV("a", v), KV("b", w)>>) : v \in V, w \in V}

RECURSIVE CountItems(_)
CountItems(v) ==
  IF ~IsDict(v) THEN 1
  ELSE IF v.d = <<>> THEN 0
  ELSE CountItems(v.d[1].v) + CountItems(Decl(Tail(v.d)))

RECURSIVE CountSections(_)
CountSections(v) ==
  IF ~IsDict(v) THEN 0
  ELSE IF v.d = <<>> THEN 1
  ELSE CountSections(v.d[1].v) + CountSections(Decl(Tail(v.d)))

\* Nested declarations, three levels deep at most, that the heap can hold.
Decls ==
  {d \in DeclsOver(Scalars \cup DeclsOver(Scalars \cup DeclsOver(Scalars))) :
     CountItems(d) <= MaxItems /\ CountSections(d) <= MaxSections}

UpperChar(c) ==
  IF \E i \in 1..Len(LowerCase) : LowerCase[i] = c
  THEN UpperCase[CHOOSE i \in 1..Len(LowerCase) : LowerCase[i] = c]
  ELSE c

RECURSIVE CaseVariants(_)
\* Every way to write the letters of a lower-case word in upper or lower case.
CaseVariants(w) ==
  IF w = <<>> THEN {<<>>}
  ELSE {<<c>> \o rest : c \in {w[1], UpperChar(w[1])}, rest \in CaseVariants(Tail(w))}

\* Strings that are no boolean token.
NonTokens ==
  { <<>>, <<"m","a","y","b","e">>, <<"M","a","y","b","e">>, <<"y">>, <<"n">>, <<"t">>,
    <<"2">>, <<"1","0">>, <<"0","0">>, <<"-","1">>, <<"y","e","s","s">>, <<"t","r","u">>,
    <<"n","o","n">>, <<"o","f">>, <<" ","n","o">>, <<"o","n"," ">>, <<"T","r","u","e","!">> }

\* Strings given to an Item of boolean type.
BoolInputs == UNION {CaseVariants(w) : w \in Truthy \cup Falsy} \cup NonTokens

\* Keys and paths looked up.
LookupKeys ==
  {StrKey(k) : k \in Keys \cup {"n"}}
  \cup {PathKey(p) : p \in {<<>>, <<"a">>, <<"b", "a">>, <<"a", "b">>, <<"b", "b", "n">>}}
  \cup {OtherKey}

(***************************************************************************)
(* The state machine.  op records the last operation and what it returned; *)
(* steps counts the operations applied.                                    *)
(***************************************************************************)
H == Heap(items, sections)

Secs == 1..Len(sections)

Its == 1..Len(items)

Op(name, sec, key, arg, flag, err, ret) ==
  [name |-> name, sec |-> sec, key |-> key, arg |-> arg, flag |-> flag,
   err |-> err, ret |-> ret]

Fits(h) == Len(h.items) <= MaxItems /\ Len(h.sections) <= MaxSections

Store(h) == items' = h.items /\ sections' = h.sections

Step == steps < MaxOps /\ steps' = steps + 1

Init ==
  /\ items = <<>>
  /\ sections = <<NewSection>>
  /\ decl = PyDict(<<>>, "decl")
  /\ op = Op("init", 0, "", NotSet, FALSE, NoErr, NotSet)
  /\ steps = 0

\* section[alias] = Item(...)
AddNewItemAct ==
  /\ Step
  /\ \E sec \in Secs, alias \in Keys, proto \in Protos :
       LET r == BindCopy(H, sec, alias, proto) IN
       /\ Fits(r.h)
       /\ Store(r.h)
       /\ op' = Op("add_new_item", sec, alias, NotSet, FALSE, r.err, r.ref)
  /\ UNCHANGED decl

\* section.add_item(alias, item) for an Item object that exists already
AddItemAct ==
  /\ Step
  /\ \E sec \in Secs, alias \in Keys, src \in Its :
       LET r == AddItem(H, sec, alias, src) IN
       /\ Fits(r.h)
       /\ Store(r.h)
       /\ op' = Op("add_item", sec, alias, ItemRef(src), FALSE, r.err, r.ref)
  /\ UNCHANGED decl

\* section[alias] = section.create_section()
AddSectionAct ==
  /\ Step
  /\ \E sec \in Secs, alias \in Keys :
       LET sub == Len(sections) + 1
           r == AddSection(Heap(items, Append(sections, NewSection)), sec, alias, sub)
       IN /\ Fits(r.h)
          /\ Store(r.h)
          /\ op' = Op("add_section", sec, alias, NotSet, FALSE, r.err, r.ref)
  /\ UNCHANGED decl

\* section[key] = v (flag FALSE) and section.key = v (flag TRUE), over a key
\* bound to an Item
SetItemRawAct ==
  /\ Step
  /\ \E sec \in Secs, key \in Keys \cup {"n"}, v \in Vals, attr \in BOOLEAN :
       /\ Bound(H, sec, key)
       /\ Child(H, sec, key).t = "item"
       /\ LET r == SetItemRaw(H, sec, key, v) IN
          /\ Fits(r.h)
          /\ Store(r.h)
          /\ op' = Op("set_raw", sec, key, v, attr, r.err, Child(H, sec, key))
  /\ UNCHANGED decl

\* item.value = v
SetValueAct ==
  /\ Step
  /\ \E i \in Its, v \in Vals :
       LET r == ItemSetValue(items[i], v) IN
       /\ items' = [items EXCEPT ![i] = r.it]
       /\ op' = Op("set_value", 0, "", v, FALSE, r.err, ItemRef(i))
  /\ UNCHANGED <<sections, decl>>

\* item.reset()
ResetItemAct ==
  /\ Step
  /\ \E i \in Its :
       /\ items' = [items EXCEPT ![i] = ItemReset(items[i])]
       /\ op' = Op("reset_item", 0, "", NotSet, FALSE, NoErr, ItemRef(i))
  /\ UNCHANGED <<sections, decl>>

\* section.load_values(dictionary, as_defaults)
LoadValuesAct ==
  /\ Step
  /\ \E sec \in Secs, d \in Dicts, as_defaults \in BOOLEAN :
       LET r == LoadValues(H, sec, d, as_defaults) IN
       /\ Fits(r.h)
       /\ Store(r.h)
       /\ op' = Op("load_values", sec, "", d, as_defaults, r.err, NotSet)
  /\ UNCHANGED decl

\* section.reset(); op.arg keeps which Items below the section had a value set.
ResetAct ==
  /\ Step
  /\ \E sec \in Secs :
       /\ Store(Reset(H, sec))
       /\ op' = Op("reset", sec, "", {i \in ItemsUnder(H, sec) : ~ItemIsDefault(items[i])},
                   FALSE, NoErr, NotSet)
  /\ UNCHANGED decl

\* section.is_default
IsDefaultAct ==
  /\ Step
  /\ \E sec \in Secs :
       op' = Op("is_default", sec, "", NotSet, FALSE, NoErr, IsDefault(H, sec))
  /\ UNCHANGED <<items, sections, decl>>

\* section.dump_values(with_defaults)
DumpValuesAct ==
  /\ Step
  /\ \E sec \in Secs, with_defaults \in BOOLEAN :
       op' = Op("dump_values", sec, "", NotSet, with_defaults, NoErr,
                DumpValues(H, sec, with_defaults))
  /\ UNCHANGED <<items, sections, decl>>

\* list(section.iter_items(recursive))
IterItemsAct ==
  /\ Step
  /\ \E sec \in Secs, recursive \in BOOLEAN :
       op' = Op("iter_items", sec, "", NotSet, recursive, NoErr,
                IterItems(H, sec, recursive, "path"))
  /\ UNCHANGED <<items, sections, decl>>

\* section[key]; op.arg keeps the handlers consulted.
ResolveAct ==
  /\ Step
  /\ \E sec \in Secs, key \in LookupKeys :
       LET r == ResolveConfigKey(H, sec, key) IN
       op' = Op("resolve", sec, key, r.asked, FALSE, r.err, r.ref)
  /\ UNCHANGED <<items, sections, decl>>

\* key in section
ContainsAct ==
  /\ Step
  /\ \E sec \in Secs, key \in Keys \cup {"n"} :
       op' = Op("contains", sec, key, NotSet, FALSE, NoErr, Contains(H, sec, key))
  /\ UNCHANGED <<items, sections, decl>>

Next ==
  \/ AddNewItemAct
  \/ AddItemAct
  \/ AddSectionAct
  \/ SetItemRawAct
  \/ SetValueAct
  \/ ResetItemAct
  \/ LoadValuesAct
  \/ ResetAct
  \/ IsDefaultAct
  \/ DumpValuesAct
  \/ IterItemsAct
  \/ ResolveAct
  \/ ContainsAct

Spec == Init /\ [][Next]_vars

(***************************************************************************)
(* C1.  Assigning a raw value over a key bound to an Item, by subscript or *)
(* by attribute, fails with a type error and changes nothing.  Assigning   *)
(* the value to the Item's .value succeeds when the Item's type accepts    *)
(* it, and a read of .value then returns it as coerced to that type; when  *)
(* the type does not accept it the assignment fails with a type error and  *)
(* the Item is unchanged.                                                  *)
(***************************************************************************)
RawAssignFails ==
  op'.name = "set_raw" =>
    /\ op'.err = "TypeError"
    /\ items' = items
    /\ sections' = sections

C1_RawAssignRejected ==
  [][ /\ RawAssignFails
      /\ op'.name = "set_value" =>
           LET i == op'.ret.id
               c == Coerce(items[i].type, op'.arg)
           IN IF c.err = NoErr
              THEN /\ op'.err = NoErr
                   /\ ItemValue(items'[i]) = Ok(c.v)
                   /\ items[i].type = "any" => ItemValue(items'[i]) = Ok(op'.arg)
                   /\ items'[i].default = items[i].default
                   /\ items'[i].name = items[i].name
              ELSE /\ op'.err = "TypeError"
                   /\ items' = items ]_vars

\* C1 as stated: the assignment to .value succeeds for every value.
C1_ValueAlwaysAccepted ==
  [][ /\ RawAssignFails
      /\ op'.name = "set_value" =>
           /\ op'.err = NoErr
           /\ ItemValue(items'[op'.ret.id]).err = NoErr ]_vars

\* A raw assignment over an Item that has a default was rejected.
C1_Witness ==
  /\ op.name = "set_raw"
  /\ op.err = "TypeError"
  /\ op.ret.t = "item"
  /\ items[op.ret.id].default # NotSet

(***************************************************************************)
(* C2.  load_values and a key unknown to the section.  With                *)
(* as_defaults=False the key is skipped without error: no section at any   *)
(* level gains or loses a child, and a dictionary that names no known Item *)
(* changes nothing at all.  With as_defaults=True every unknown key the    *)
(* call gets to is bound to a new child: a section holding exactly the     *)
(* children the supplied mapping names, built the same way, when the value *)
(* is a mapping, and otherwise an Item whose default is the value.         *)
(***************************************************************************)
RECURSIVE Materialized(_, _, _, _)
Materialized(h, ref, name, v) ==
  IF IsDict(v)
  THEN /\ ref.t = "sec"
       /\ h.sections[ref.id].alias = name
       /\ DictKeys(Configs(h, ref.id)) = DictKeys(v.d)
       /\ \A k \in DictKeys(v.d) :
            Materialized(h, Child(h, ref.id, k), k, DictGet(v.d, k))
  ELSE /\ ref.t = "item"
       /\ h.items[ref.id] = [name |-> name, type |-> v.kind, default |-> v, value |-> NotSet]

RECURSIVE NamesNoItem(_, _, _)
\* The dictionary names no Item of the section or of the sections below it.
NamesNoItem(h, sec, d) ==
  /\ IsDict(d)
  /\ \A j \in 1..Len(d.d) :
       \/ ~Contains(h, sec, d.d[j].k)
       \/ /\ Child(h, sec, d.d[j].k).t = "sec"
          /\ NamesNoItem(h, Child(h, sec, d.d[j].k).id, d.d[j].v)

C2_UnknownKeys ==
  [][ op'.name = "load_values" =>
        LET sec == op'.sec
            es == op'.arg.d
            after == Heap(items', sections')
        IN IF ~op'.flag
           THEN /\ sections' = sections
                /\ Len(items') = Len(items)
                /\ NamesNoItem(H, sec, op'.arg) => (op'.err = NoErr /\ items' = items)
           ELSE \A j \in 1..Len(es) :
                  ( /\ ~Contains(H, sec, es[j].k)
                    /\ LoadEntries(H, sec, SubSeq(es, 1, j - 1), TRUE).err = NoErr )
                  => /\ Bound(after, sec, es[j].k)
                     /\ Child(after, sec, es[j].k) \notin
                          {ItemRef(i) : i \in Its} \cup {SecRef(s) : s \in Secs}
                     /\ Materialized(after, Child(after, sec, es[j].k), es[j].k, es[j].v) ]_vars

\* A first load_values as defaults built a section inside a section, with an Item.
C2_Witness ==
  /\ op.name = "load_values"
  /\ op.flag
  /\ op.err = NoErr
  /\ steps = 1
  /\ Len(sections) = 3
  /\ Len(items) = 1

(***************************************************************************)
(* C3.  The mapping dump_values returns has an entry for an Item exactly   *)
(* when the Item has a value and (with_defaults or the Item is not         *)
(* default), under the Item's name and with its value, and an entry for a  *)
(* sub-section exactly when that sub-section's own dump is not empty.  So  *)
(* no sub-section is exported as an empty mapping, and                     *)
(* dump_values(with_defaults=False) is {} when no Item has been set.  An   *)
(* Item whose value is itself an empty mapping is exported with it.        *)
(***************************************************************************)
Names == Keys \cup {"n"}

Contributes(it, with_defaults) == HasValue(it) /\ (with_defaults \/ ~ItemIsDefault(it))

\* Entry k of the dump of sec comes from an Item named k ...
FromItem(sec, k, with_defaults) ==
  {i \in ItemsIn(H, sec) : items[i].name = k /\ Contributes(items[i], with_defaults)}

\* ... or from a sub-section bound at k.
FromSection(sec, k, with_defaults) ==
  {s \in SectionsIn(H, sec) : /\ Bound(H, sec, k)
                              /\ Child(H, sec, k) = SecRef(s)
                              /\ DumpValues(H, s, with_defaults).d # <<>>}

RECURSIVE NoEmptySection(_)
\* No mapping made by dump_values for a section is empty.
NoEmptySection(v) ==
  \A j \in 1..Len(v.d) :
    (IsDict(v.d[j].v) /\ v.d[j].v.o = "dump") =>
      (v.d[j].v.d # <<>> /\ NoEmptySection(v.d[j].v))

RECURSIVE NoEmptyMapping(_)
\* No mapping at all is empty, below the result itself.
NoEmptyMapping(v) ==
  \A j \in 1..Len(v.d) :
    IsDict(v.d[j].v) => (v.d[j].v.d # <<>> /\ NoEmptyMapping(v.d[j].v))

DumpEntries ==
  LET sec == op.sec
      wd == op.flag
      r == op.ret
  IN /\ IsDict(r)
     /\ DictKeys(r.d) \subseteq Names
     /\ \A k \in Names :
          k \in DictKeys(r.d) <=> (FromItem(sec, k, wd) # {} \/ FromSection(sec, k, wd) # {})
     /\ \A k \in DictKeys(r.d) :
          \/ \E i \in FromItem(sec, k, wd) : DictGet(r.d, k) = ItemValue(items[i]).v
          \/ \E s \in FromSection(sec, k, wd) : DictGet(r.d, k) = DumpValues(H, s, wd)
     /\ r.d = <<>> <=> (\A i \in ItemsUnder(H, sec) : ~Contributes(items[i], wd))
     /\ (~wd /\ \A i \in ItemsUnder(H, sec) : ItemIsDefault(items[i])) => r.d = <<>>

C3_DumpEntries ==
  op.name = "dump_values" => (DumpEntries /\ NoEmptySection(op.ret))

\* C3 as stated: no empty mapping anywhere in the result.
C3_NoEmptyMappingAnywhere ==
  op.name = "dump_values" => (DumpEntries /\ NoEmptyMapping(op.ret))

\* A dump without defaults exported a set Item of a sub-section and left out
\* a sub-section that has nothing to export.
C3_Witness ==
  /\ op.name = "dump_values"
  /\ ~op.flag
  /\ \E k \in DictKeys(op.ret.d) : IsDict(DictGet(op.ret.d, k)) /\ DictGet(op.ret.d, k).o = "dump"
  /\ \E s \in SectionsIn(H, op.sec) : DumpValues(H, s, FALSE).d = <<>>

(***************************************************************************)
(* C4.  After section.reset(), whatever was assigned or loaded before,     *)
(* every Item of the section and of the sections below it is default, a    *)
(* read of its value returns its default (or fails with NoValue when it    *)
(* has none), and the section's is_default is true.                        *)
(***************************************************************************)
C4_ResetRestoresDefaults ==
  op.name = "reset" =>
    /\ \A i \in ItemsUnder(H, op.sec) :
         /\ ItemIsDefault(items[i])
         /\ ItemValue(items[i]) = IF items[i].default # NotSet
                                  THEN Ok(items[i].default)
                                  ELSE Fail("NoValue")
    /\ IsDefault(H, op.sec)

\* reset() reset an Item of a sub-section that had a value set.
C4_Witness ==
  /\ op.name = "reset"
  /\ \E i \in op.arg : i \in ItemsUnder(H, op.sec) \ ItemsIn(H, op.sec)

(***************************************************************************)
(* Trees built from a declaration and then only exported.                  *)
(***************************************************************************)
InitDecl ==
  \E d \in Decls, how \in {"Config", "load_values"} :
    /\ decl = d
    /\ items = Declared(how, d).items
    /\ sections = Declared(how, d).sections
    /\ op = Op("init", 1, how, NotSet, FALSE, NoErr, NotSet)
    /\ steps = 0

NextDecl == DumpValuesAct

SpecDecl == InitDecl /\ [][NextDecl]_vars

(***************************************************************************)
(* C5.  For a section built from a nested declaration of plain values in   *)
(* which no mapping is empty, and with no value set afterwards,            *)
(* dump_values(with_defaults=True) returns a nested mapping equal to the   *)
(* declaration, made of new mapping objects, none of them the              *)
(* declaration's.                                                          *)
(***************************************************************************)
RECURSIVE AllMadeBy(_, _)
\* Every mapping of v is an object made at the place named o.
AllMadeBy(v, o) ==
  IsDict(v) => (v.o = o /\ \A j \in 1..Len(v.d) : AllMadeBy(v.d[j].v, o))

RoundTrip ==
  /\ PyEq(op.ret, decl)
  /\ AllMadeBy(op.ret, "dump")
  /\ AllMadeBy(decl, "decl")

C5_RoundTrip ==
  (op.name = "dump_values" /\ op.sec = 1 /\ op.flag /\ NoEmptyMapping(decl)) => RoundTrip

\* C5 as stated: every nested declaration of plain values round-trips.
C5_RoundTripAny ==
  (op.name = "dump_values" /\ op.sec = 1 /\ op.flag) => RoundTrip

\* The export of a tree declared with an Item and a section holding an Item.
C5_Witness ==
  /\ op.name = "dump_values"
  /\ op.sec = 1
  /\ op.flag
  /\ decl = Decl(<<KV("a", PyInt(5)), KV("b", Decl(<<KV("a", PyBool(TRUE))>>))>>)
  /\ PyEq(op.ret, decl)

(***************************************************************************)
(* A section with one Item of boolean type, given strings.                 *)
(***************************************************************************)
BoolDecl == Decl(<<KV("a", PyBool(TRUE))>>)

InitBool ==
  /\ decl = BoolDecl
  /\ items = Declared("Config", BoolDecl).items
  /\ sections = Declared("Config", BoolDecl).sections
  /\ op = Op("init", 1, "Config", NotSet, FALSE, NoErr, NotSet)
  /\ steps = 0

\* section.a.value = s
SetBoolAct ==
  /\ Step
  /\ \E s \in BoolInputs :
       LET i == Child(H, 1, "a").id
           r == ItemSetValue(items[i], PyStr(s))
       IN /\ items' = [items EXCEPT ![i] = r.it]
          /\ op' = Op("set_value", 1, "a", PyStr(s), FALSE, r.err, ItemRef(i))
  /\ UNCHANGED <<sections, decl>>

\* section.load_values({'a': s})
LoadBoolAct ==
  /\ Step
  /\ \E s \in BoolInputs :
       LET r == LoadValues(H, 1, Arg(<<KV("a", PyStr(s))>>), FALSE) IN
       /\ Store(r.h)
       /\ op' = Op("load_values", 1, "a", PyStr(s), FALSE, r.err, Child(H, 1, "a"))
  /\ UNCHANGED decl

NextBool == SetBoolAct \/ LoadBoolAct

SpecBool == InitBool /\ [][NextBool]_vars

(***************************************************************************)
(* C6.  An Item of boolean type given a string, by .value or by            *)
(* load_values with as_defaults=False: yes, true, 1, on in any letter case *)
(* give True; no, false, 0, off in any letter case give False; any other   *)
(* string fails with a type error.                                         *)
(***************************************************************************)
\* s is the word w, each letter in either case.
Spells(s, w) ==
  /\ Len(s) = Len(w)
  /\ \A i \in 1..Len(w) : s[i] = w[i] \/ s[i] = UpperChar(w[i])

C6_BooleanTokens ==
  op.name \in {"set_value", "load_values"} =>
    LET s == op.arg.s
        it == items[op.ret.id]
    IN /\ it.type = "bool"
       /\ (\E w \in Truthy : Spells(s, w)) =>
            (op.err = NoErr /\ ItemValue(it) = Ok(PyBool(TRUE)) /\ ~ItemIsDefault(it))
       /\ (\E w \in Falsy : Spells(s, w)) =>
            (op.err = NoErr /\ ItemValue(it) = Ok(PyBool(FALSE)) /\ ~ItemIsDefault(it))
       /\ (\A w \in Truthy \cup Falsy : ~Spells(s, w)) => op.err = "TypeError"

\* load_values gave the boolean Item 'oFF' and it reads False.
C6_Witness ==
  /\ op.name = "load_values"
  /\ op.arg = PyStr(<<"o", "F", "F">>)
  /\ op.err = NoErr
  /\ ItemValue(items[op.ret.id]) = Ok(PyBool(FALSE))

(***************************************************************************)
(* C7.  iter_items(recursive=True) with the default key mode yields one    *)
(* pair for each Item of the section and of the sections below it, N pairs *)
(* for N Items, none for a section, each keyed by the tuple of the         *)
(* sections' aliases from the section iterated down to the Item, then the  *)
(* Item's name.                                                            *)
(***************************************************************************)
\* The section of the tree that holds the Item.
OwnerOf(sec, i) == CHOOSE s \in SectionsUnder(H, sec) : i \in ItemsIn(H, s)

RECURSIVE AliasesDownTo(_, _)
\* The aliases from below sec down to section s, by the parent references.
AliasesDownTo(sec, s) ==
  IF s = sec THEN <<>>
  ELSE AliasesDownTo(sec, sections[s].parent) \o <<sections[s].alias>>

PathOfItem(sec, i) == AliasesDownTo(sec, OwnerOf(sec, i)) \o <<items[i].name>>

C7_IterItemsRecursive ==
  (op.name = "iter_items" /\ op.flag) =>
    LET ys == op.ret
        under == ItemsUnder(H, op.sec)
    IN /\ Len(ys) = Cardinality(under)
       /\ {ys[j].ref : j \in 1..Len(ys)} = {ItemRef(i) : i \in under}
       /\ \A j \in 1..Len(ys) : ys[j].key = PathOfItem(op.sec, ys[j].ref.id)

\* Two Items at two depths were yielded, each under its path.
C7_Witness ==
  /\ op.name = "iter_items"
  /\ op.flag
  /\ Len(op.ret) = 2
  /\ \E j \in 1..2 : Len(op.ret[j].key) = 1
  /\ \E j \in 1..2 : Len(op.ret[j].key) = 2

(***************************************************************************)
(* C8.  add_item(alias, item) stores a copy: the stored child is a new     *)
(* object equal to the Item passed in (named by the alias when it had no   *)
(* name), the Item passed in is left as it was, and from then on setting   *)
(* or resetting the value of one Item changes no other.  No Item object is *)
(* ever held by two sections.                                              *)
(***************************************************************************)
NoSharedItems ==
  \A s1 \in Secs, s2 \in Secs : s1 # s2 => ItemsIn(H, s1) \cap ItemsIn(H, s2) = {}

AddItemCopies ==
  op'.name = "add_item" =>
    LET src == op'.arg.id
        new == op'.ret.id
        after == Heap(items', sections')
    IN /\ new \notin Its
       /\ items'[new] = StoredCopy(op'.key, items[src])
       /\ \A j \in Its : items'[j] = items[j]
       /\ Child(after, op'.sec, op'.key) = ItemRef(new)
       /\ \A s \in Secs : src \in ItemsIn(after, s) => src \in ItemsIn(H, s)

ValueOfOneItemOnly ==
  op'.name \in {"set_value", "reset_item"} =>
    /\ \A j \in Its \ {op'.ret.id} : items'[j] = items[j]
    /\ sections' = sections

C8_AddItemStoresCopy ==
  /\ []NoSharedItems
  /\ [][AddItemCopies /\ ValueOfOneItemOnly]_vars

\* An Item of one section, its value set, was added to another section,
\* which holds a copy with that value.
C8_Witness ==
  /\ op.name = "add_item"
  /\ op.ret # op.arg
  /\ items[op.arg.id].value # NotSet
  /\ items[op.ret.id].value = items[op.arg.id].value
  /\ \E s \in Secs \ {op.sec} : op.arg.id \in ItemsIn(H, s)

(***************************************************************************)
(* C9.  section[path] for a tuple or list path: a path of one segment      *)
(* gives the child bound to that segment; a longer path gives what the     *)
(* rest of the path gives in the child bound to its first segment; the     *)
(* lookup fails when a segment is not bound or when a segment before the   *)
(* last is bound to an Item.                                               *)
(***************************************************************************)
RECURSIVE Walk(_, _)

\* The child a path leads to through the bindings, NoRef when it leads nowhere.
Walk(ref, p) ==
  IF p = <<>> THEN ref
  ELSE IF ref.t # "sec" \/ ~Bound(H, ref.id, Head(p)) THEN NoRef
  ELSE Walk(Child(H, ref.id, Head(p)), Tail(p))

ThroughItem(sec, p) ==
  \E i \in 1..(Len(p) - 1) :
    LET at == Walk(SecRef(sec), SubSeq(p, 1, i)) IN at # NoRef /\ at.t = "item"

C9_ResolvePath ==
  (op.name = "resolve" /\ op.key.t = "path" /\ Len(op.key.p) >= 1) =>
    LET p == op.key.p
        target == Walk(SecRef(op.sec), p)
    IN /\ Len(p) = 1 =>
            IF Bound(H, op.sec, p[1])
            THEN op.err = NoErr /\ op.ret = Child(H, op.sec, p[1])
            ELSE op.err = "NotFound"
       /\ target # NoRef => op.err = NoErr /\ op.ret = target
       /\ target = NoRef => op.err # NoErr /\ op.ret = NoRef
       /\ ThroughItem(op.sec, p) => op.err # NoErr
       /\ ~Bound(H, op.sec, p[1]) => op.err = "NotFound"

\* A path of three segments was resolved to an Item two sections down.
C9_Witness ==
  /\ op.name = "resolve"
  /\ op.key.t = "path"
  /\ Len(op.key.p) = 3
  /\ op.err = NoErr
  /\ op.ret.t = "item"
  /\ op.ret = Walk(SecRef(op.sec), op.key.p)

\* A path was refused because a segment before its last is bound to an Item.
C9_ThroughItemReached ==
  /\ op.name = "resolve"
  /\ op.key.t = "path"
  /\ ThroughItem(op.sec, op.key.p)
  /\ op.err # NoErr

(***************************************************************************)
(* C10.  Once an Item with an explicit name has been assigned to a section *)
(* under a different key, section[key] and section[name] both give that    *)
(* Item and both are `in` the section; iter_items yields the Item once,    *)
(* keyed by its name; dump_values has an entry under the name when the     *)
(* Item has a value, and an entry under the key only when another Item of  *)
(* the section carries the key as its name.                                *)
(***************************************************************************)
AssignedUnderOtherKey ==
  /\ op.name \in {"add_new_item", "add_item"}
  /\ op.err = NoErr
  /\ items[op.ret.id].name # op.key

YieldsOf(ys, ref) == {i \in 1..Len(ys) : ys[i].ref = ref}

C10_ExplicitNameAndKey ==
  AssignedUnderOtherKey =>
    LET it == items[op.ret.id]
        ys == IterItems(H, op.sec, FALSE, "path")
        dump == DumpValues(H, op.sec, TRUE).d
    IN /\ ResolveConfigKey(H, op.sec, StrKey(op.key)) = Found(op.ret)
       /\ ResolveConfigKey(H, op.sec, StrKey(it.name)) = Found(op.ret)
       /\ Contains(H, op.sec, op.key)
       /\ Contains(H, op.sec, it.name)
       /\ Cardinality(YieldsOf(ys, op.ret)) = 1
       /\ \A i \in YieldsOf(ys, op.ret) : ys[i].key = <<it.name>>
       /\ HasValue(it) => it.name \in DictKeys(dump)
       /\ op.key \in DictKeys(dump) =>
            \E j \in ItemsIn(H, op.sec) \ {op.ret.id} :
              items[j].name = op.key /\ HasValue(items[j])

\* Item(name='n', default=True) was assigned under the key 'a': the export
\* of the section has the entry 'n' and no entry 'a'.
C10_Witness ==
  /\ AssignedUnderOtherKey
  /\ op.key = "a"
  /\ items[op.ret.id].name = "n"
  /\ HasValue(items[op.ret.id])
  /\ "n" \in DictKeys(DumpValues(H, op.sec, TRUE).d)
  /\ "a" \notin DictKeys(DumpValues(H, op.sec, TRUE).d)

(***************************************************************************)
(* C11.  load_values and a key known to the section.  Turn by turn of the  *)
(* loop, in the order of the dictionary: a key bound to an Item gives the  *)
(* Item the value as coerced to its type, as its default and leaving its   *)
(* override alone when as_defaults is true, as its override and leaving    *)
(* its default alone when as_defaults is false, and touches nothing else;  *)
(* a key bound to a section changes nothing outside that section and       *)
(* treats the entries of the supplied mapping the same way there, with the *)
(* same flag, at every depth.                                              *)
(***************************************************************************)
OthersKept(pre, post, touched) ==
  /\ Len(post.items) >= Len(pre.items)
  /\ \A i \in (1..Len(pre.items)) \ touched : post.items[i] = pre.items[i]

ItemEntryApplied(pre, post, err, i, v, as_defaults) ==
  LET old == pre.items[i]
      new == post.items[i]
      co == Coerce(old.type, v)
  IN /\ post.sections = pre.sections
     /\ Len(post.items) = Len(pre.items)
     /\ OthersKept(pre, post, {i})
     /\ new.name = old.name
     /\ IF co.err # NoErr THEN err = co.err /\ new = old
        ELSE /\ err = NoErr
             /\ as_defaults => (new.default = co.v /\ new.value = old.value)
             /\ ~as_defaults => (new.value = co.v /\ new.default = old.default)

RECURSIVE KnownKeysApplied(_, _, _, _)
KnownKeysApplied(h, sec, es, as_defaults) ==
  \A j \in 1..Len(es) :
    LET pre == LoadEntries(h, sec, SubSeq(es, 1, j - 1), as_defaults)
        post == LoadEntries(h, sec, SubSeq(es, 1, j), as_defaults)
        k == es[j].k
        v == es[j].v
    IN (pre.err = NoErr /\ Contains(pre.h, sec, k)) =>
         LET c == Child(pre.h, sec, k) IN
         IF c.t = "item"
         THEN ItemEntryApplied(pre.h, post.h, post.err, c.id, v, as_defaults)
         ELSE /\ Configs(post.h, sec) = Configs(pre.h, sec)
              /\ OthersKept(pre.h, post.h, ItemsUnder(pre.h, c.id))
              /\ IF IsDict(v)
                 THEN /\ KnownKeysApplied(pre.h, c.id, v.d, as_defaults)
                      /\ post = LoadEntries(pre.h, c.id, v.d, as_defaults)
                 ELSE post.err # NoErr /\ post.h = pre.h

C11_KnownKeys ==
  [][ op'.name = "load_values" =>
        LET whole == LoadEntries(H, op'.sec, op'.arg.d, op'.flag) IN
        /\ KnownKeysApplied(H, op'.sec, op'.arg.d, op'.flag)
        /\ Heap(items', sections') = whole.h
        /\ op'.err = whole.err ]_vars

\* load_values(as_defaults=False) went through a known section and set the
\* override of an Item there, whose default stayed.
C11_Witness ==
  /\ op.name = "load_values"
  /\ ~op.flag
  /\ op.err = NoErr
  /\ \E i \in ItemsUnder(H, op.sec) \ ItemsIn(H, op.sec) :
       /\ items[i].value # NotSet
       /\ items[i].default # NotSet
       /\ \E j \in 1..Len(op.arg.d) :
            /\ IsDict(op.arg.d[j].v)
            /\ Child(H, op.sec, op.arg.d[j].k).t = "sec"
            /\ i \in ItemsIn(H, Child(H, op.sec, op.arg.d[j].k).id)

(***************************************************************************)
(* Trees built by load_values as defaults; handlers registered against     *)
(* NOT_FOUND on them, and lookups in them.                                 *)
(***************************************************************************)
\* The number of handlers registered on one section.
MaxHandlers == 2

InitTrees ==
  \E d \in Dicts \cup {Arg(<<>>)} :
    LET h == LoadValues(Heap(<<>>, <<NewSection>>), 1, d, TRUE).h IN
    /\ items = h.items
    /\ sections = h.sections
    /\ decl = PyDict(<<>>, "decl")
    /\ op = Op("init", 1, "", d, TRUE, NoErr, NotSet)
    /\ steps = 0

\* section.hooks.register_hook(NOT_FOUND, handler)
RegisterHookAct ==
  /\ Step
  /\ \E sec \in Secs, hd \in Handlers :
       /\ Len(sections[sec].hooks) < MaxHandlers
       /\ Store(HooksRegister(H, sec, hd))
       /\ op' = Op("register", sec, "", hd, FALSE, NoErr, NotSet)
  /\ UNCHANGED decl

NextHooks == RegisterHookAct \/ ResolveAct

SpecHooks == InitTrees /\ [][NextHooks]_vars

(***************************************************************************)
(* C12.  section[key] for a string key.  A bound key gives its child and   *)
(* no handler is called.  For an unbound key the handlers registered       *)
(* against NOT_FOUND are called in order up to the first that supplies a   *)
(* child, which is returned without error; with no handler, or when every  *)
(* handler supplies nothing, the lookup fails with NotFound.               *)
(***************************************************************************)
Answers(sec, k) ==
  [i \in 1..Len(sections[sec].hooks) |-> Handler(sections[sec].hooks[i], H, sec, k)]

Supplying(sec, k) == {i \in DOMAIN Answers(sec, k) : Answers(sec, k)[i] # NoRef}

FirstOf(S) == CHOOSE i \in S : \A j \in S : i <= j

C12_NotFoundHook ==
  (op.name = "resolve" /\ op.key.t = "str") =>
    LET sec == op.sec
        k == op.key.k
        reg == sections[sec].hooks
    IN IF Bound(H, sec, k)
       THEN op.arg = <<>> /\ op.err = NoErr /\ op.ret = Child(H, sec, k)
       ELSE IF Supplying(sec, k) # {}
       THEN /\ op.err = NoErr
            /\ op.ret = Answers(sec, k)[FirstOf(Supplying(sec, k))]
            /\ op.arg = SubSeq(reg, 1, FirstOf(Supplying(sec, k)))
       ELSE /\ op.err = "NotFound"
            /\ op.ret = NoRef
            /\ op.arg = reg

\* An unbound key was looked up where a handler that supplies nothing is
\* registered before one that supplies a child: both were called and the
\* child was returned.
C12_Witness ==
  /\ op.name = "resolve"
  /\ op.key.t = "str"
  /\ ~Bound(H, op.sec, op.key.k)
  /\ sections[op.sec].hooks = <<"nothing", "first_child">>
  /\ op.arg = <<"nothing", "first_child">>
  /\ op.err = NoErr
  /\ op.ret # NoRef

\* A bound key was looked up where a handler that supplies a child is
\* registered.
C12_BoundWithHandlerReached ==
  /\ op.name = "resolve"
  /\ op.key.t = "str"
  /\ Bound(H, op.sec, op.key.k)
  /\ sections[op.sec].hooks # <<>>
  /\ sections[op.sec].hooks[1] = "first_child"

(***************************************************************************)
(* Trees built by load_values as defaults, given dictionaries some of      *)
(* whose values the tree refuses.                                          *)
(***************************************************************************)
\* {'a': {}, 'b': {'n': 5, 'a': 'maybe', 'b': 5}} and {'b': {'a': 'No'}, 'a': 5}
PartDicts ==
  { Arg(<<KV("a", EmptyDict),
          KV("b", Arg(<<KV("n", PyInt(5)), KV("a", StrMaybe), KV("b", PyInt(5))>>))>>),
    Arg(<<KV("b", Arg(<<KV("a", StrNo)>>)), KV("a", PyInt(5))>>) }

\* section.load_values(dictionary, as_defaults)
LoadPartlyAct ==
  /\ Step
  /\ \E sec \in Secs, d \in Dicts \cup PartDicts, as_defaults \in BOOLEAN :
       LET r == LoadValues(H, sec, d, as_defaults) IN
       /\ Fits(r.h)
       /\ Store(r.h)
       /\ op' = Op("load_values", sec, "", d, as_defaults, r.err, NotSet)
  /\ UNCHANGED decl

NextPartly == LoadPartlyAct

SpecPartly == InitTrees /\ [][NextPartly]_vars

(***************************************************************************)
(* C13.  load_values is not atomic.  When a call fails, its error is that  *)
(* of the first entry, in the order of the dictionary, that the tree       *)
(* refuses, and the tree is left as the call given only the entries before *)
(* that one leaves it: what they set stays set, no entry after it is       *)
(* applied, and the refused entry changes nothing, unless it names a       *)
(* section, in which case the same holds of the supplied mapping there.    *)
(***************************************************************************)
Upto(h, sec, es, j, as_defaults) == LoadEntries(h, sec, SubSeq(es, 1, j), as_defaults)

\* The first entry whose turn fails, 0 when none does.
FailIndex(h, sec, es, as_defaults) ==
  LET failing == {j \in 1..Len(es) : Upto(h, sec, es, j, as_defaults).err # NoErr}
  IN IF failing = {} THEN 0 ELSE CHOOSE j \in failing : \A i \in failing : j <= i

RECURSIVE PartlyApplied(_, _, _, _, _, _)
PartlyApplied(h, sec, es, as_defaults, after, err) ==
  LET f == FailIndex(h, sec, es, as_defaults) IN
  /\ f > 0
  /\ LET before == Upto(h, sec, es, f - 1, as_defaults).h
         k == es[f].k
         v == es[f].v
     IN /\ Contains(before, sec, k)
        /\ LET c == Child(before, sec, k) IN
           IF c.t = "item"
           THEN /\ after = before
                /\ err = Coerce(before.items[c.id].type, v).err
                /\ err # NoErr
           ELSE IF ~IsDict(v)
           THEN after = before /\ err = "AttributeError"
           ELSE PartlyApplied(before, c.id, v.d, as_defaults, after, err)

C13_NotAtomic ==
  [][ (op'.name = "load_values" /\ op'.err # NoErr) =>
        PartlyApplied(H, op'.sec, op'.arg.d, op'.flag,
                      Heap(items', sections'), op'.err) ]_vars

\* {'a': {}, 'b': {'n': 5, 'a': 'maybe', 'b': 5}} as defaults on a tree
\* whose section 'b' has a boolean Item 'a': the call failed with a type
\* error, the Item 'n' made in section 'b' before the refused entry is
\* there, and the key 'b' after it is not bound in section 'b'.
C13_Witness ==
  /\ op.name = "load_values"
  /\ op.sec = 1
  /\ op.flag
  /\ op.err = "TypeError"
  /\ Len(op.arg.d) = 2
  /\ Bound(H, 1, "b")
  /\ Child(H, 1, "b").t = "sec"
  /\ LET b == Child(H, 1, "b").id IN
     /\ Bound(H, b, "n")
     /\ Child(H, b, "n").t = "item"
     /\ items[Child(H, b, "n").id].default = PyInt(5)
     /\ Bound(H, b, "a")
     /\ items[Child(H, b, "a").id].default = PyBool(TRUE)
     /\ ~Bound(H, b, "b")

\* {'b': {'a': 'No'}, 'a': 5} on a tree whose 'a' is a section: the call
\* failed at 'a' and the override set before it in section 'b' is there.
C13_EarlierSectionKept ==
  /\ op.name = "load_values"
  /\ ~op.flag
  /\ op.err = "AttributeError"
  /\ \E s \in SectionsIn(H, op.sec), i \in Its :
       i \in ItemsIn(H, s) /\ items[i].value = PyBool(FALSE)

====
